---- MODULE Spec2Model ----
(***************************************************************************)
(* The calculator of src/cal.js: the three state variables current,        *)
(* history and consumedResult (the spec's justEvaluated), the handlers     *)
(* that edit them, the evaluator safeEval and the deferred error reset of  *)
(* showError.                                                              *)
(*                                                                         *)
(* A JavaScript string is a sequence of one-character strings.  A number   *)
(* is an exact rational [k |-> "num", n, d] (d > 0, reduced), or           *)
(* [k |-> "nonfinite"] for Infinity, -Infinity and NaN.  Within the bounds *)
(* below every operand has a handful of digits, where the IEEE-754 double  *)
(* the program computes and the exact rational print the same text after   *)
(* the rounding of line 159; doPercent's String(val / 100) is taken as the *)
(* exact decimal shift.  A value whose numerator or denominator leaves     *)
(* IntLimit is [k |-> "range"], and the event that computes it is not      *)
(* explored.                                                               *)
(*                                                                         *)
(* Values that are used more than once are passed as operator arguments    *)
(* rather than bound by LET, which keeps TLC's coverage bookkeeping small. *)
(***************************************************************************)
EXTENDS Integers, Sequences, FiniteSets, TLC

\* current, history, consumedResult: the state of lines 35-37
\* shown:      the text of the display element currentEl
\* timers:     the number of pending callbacks of showError
\* lastAction: the handler of the last "DEBUG action" line of the console
\* repeated:   the line before it names the same handler
\* lastErr:    the kind of the error the last handler caught, or "none"
\* script, pc: a sequence of keys to press and the index of the next one
VARIABLES current, history, consumedResult, shown, timers,
          lastAction, repeated, lastErr, script, pc

vars == <<current, history, consumedResult, shown, timers,
          lastAction, repeated, lastErr, script, pc>>

(* ------------------------------ bounds --------------------------------- *)
\* the digit keys explored are "0" .. the digit MaxDigit
MaxDigit == 1
\* appendDigit appends a digit while current is shorter than this (the point
\* is always explored: the handler itself appends one at most)
MaxTyped == 2
\* applyOperator is explored while the history it leaves is at most this long
MaxHist == 4
\* evaluateExpression is explored while history + current is at most this long
MaxExpr == 4
\* doPercent is explored while the current it leaves is at most this long
MaxCur == 7
\* evaluateExpression is explored while its result is at most this large
MaxResult == 12
\* at most this many error-reset callbacks are pending at once
MaxTimers == 2
\* numerators and denominators of the values computed stay below this
IntLimit == 10 ^ 8

(* ----------------------------- characters ------------------------------ *)
DigitChars == <<"0", "1", "2", "3", "4", "5", "6", "7", "8", "9">>

IsDigit(c) == \E i \in 1..10 : DigitChars[i] = c

DigitVal(c) == (CHOOSE i \in 1..10 : DigitChars[i] = c) - 1

DigitChar(v) == DigitChars[v + 1]

\* the operator characters of the regular expressions [+\-*/%]
OpChars == {"+", "-", "*", "/", "%"}

\* the text showError writes into the display
ErrText == <<"E", "r", "r">>

EqSuffix == <<" ", "=">>

Includes(s, c) == \E i \in 1..Len(s) : s[i] = c

Count(s, c) == Cardinality({i \in 1..Len(s) : s[i] = c})

\* s.slice(0, -1)
DropLast(s) == SubSeq(s, 1, Len(s) - 1)

\* /[+\-*/%]$/.test(s)
EndsWithOp(s) == Len(s) > 0 /\ s[Len(s)] \in OpChars

RECURSIVE StripZerosRight(_)
StripZerosRight(ds) ==
  IF Len(ds) > 0 /\ ds[Len(ds)] = "0" THEN StripZerosRight(DropLast(ds)) ELSE ds

RECURSIVE StripZerosLeft(_)
StripZerosLeft(ds) ==
  IF Len(ds) > 0 /\ ds[1] = "0" THEN StripZerosLeft(Tail(ds)) ELSE ds

Zeros(k) == [i \in 1..k |-> "0"]

(* ---------------------- normalizeVisual, lines 40-43 ------------------- *)
RECURSIVE TrimLeft(_)
TrimLeft(s) == IF Len(s) > 0 /\ s[1] = " " THEN TrimLeft(Tail(s)) ELSE s

RECURSIVE TrimRight(_)
TrimRight(s) ==
  IF Len(s) > 0 /\ s[Len(s)] = " " THEN TrimRight(DropLast(s)) ELSE s

\* the multiplication, division and minus signs are the one-character
\* strings named by their code points
Glyph(c) == CASE c = "U+00D7" -> "*"
              [] c = "U+00F7" -> "/"
              [] c = "U+2212" -> "-"
              [] OTHER -> c

normalizeVisual(s) == TrimRight(TrimLeft([i \in 1..Len(s) |-> Glyph(s[i])]))

\* expr.replace(/\s+/g, '')
StripSpaces(s) == SelectSeq(s, LAMBDA c : c # " ")

(* ------------------- Number to string, as String(x) -------------------- *)
RECURSIVE NatDigits(_)
NatDigits(n) ==
  IF n < 10 THEN <<DigitChar(n)>> ELSE NatDigits(n \div 10) \o <<DigitChar(n % 10)>>

\* the exponent part of a number printed in exponent notation
Exponent(e) ==
  <<"e">> \o (IF e < 0 THEN <<"-">> \o NatDigits(0 - e) ELSE <<"+">> \o NatDigits(e))

\* A decimal [neg, ds, n]: ds are the significant digits (no leading or
\* trailing zero, <<>> for zero) and the value is 0.ds * 10^n.
\* Number::toString of ECMAScript: plain digits while 1e-7 < |x| < 1e21,
\* exponent notation outside.
DecToString(dec) ==
  IF Len(dec.ds) = 0 THEN <<"0">>
  ELSE (IF dec.neg THEN <<"-">> ELSE <<>>) \o
    (IF Len(dec.ds) <= dec.n /\ dec.n <= 21
       THEN dec.ds \o Zeros(dec.n - Len(dec.ds))
     ELSE IF 0 < dec.n /\ dec.n <= 21
       THEN SubSeq(dec.ds, 1, dec.n) \o <<".">> \o SubSeq(dec.ds, dec.n + 1, Len(dec.ds))
     ELSE IF -6 < dec.n /\ dec.n <= 0
       THEN <<"0", ".">> \o Zeros(0 - dec.n) \o dec.ds
     ELSE IF Len(dec.ds) = 1 THEN dec.ds \o Exponent(dec.n - 1)
     ELSE <<dec.ds[1]>> \o <<".">> \o SubSeq(dec.ds, 2, Len(dec.ds)) \o Exponent(dec.n - 1))

\* the decimal of the digits i before the point (no leading zero) and all,
\* the digits before and after it without the leading zeros; len is the
\* number of digits before those were dropped
DecOf(neg, i, len, all) ==
  IF Len(all) = 0 THEN [neg |-> FALSE, ds |-> <<>>, n |-> 0]
  ELSE [neg |-> neg, ds |-> StripZerosRight(all), n |-> Len(i) - (len - Len(all))]

\* the decimal of the digits ip before and fp after the point
MkDec(neg, ip, fp) ==
  DecOf(neg,
        StripZerosLeft(ip),
        Len(StripZerosLeft(ip) \o fp),
        StripZerosLeft(StripZerosLeft(ip) \o fp))

(* --------------------------- number values ----------------------------- *)
Abs(x) == IF x < 0 THEN 0 - x ELSE x

RECURSIVE GCD(_, _)
GCD(a, b) == IF b = 0 THEN a ELSE GCD(b, a % b)

NonFinite == [k |-> "nonfinite"]

OutOfRange == [k |-> "range"]

SyntaxErr == [k |-> "syntax"]

Reduced(n, d, g) ==
  IF Abs(n) \div g >= IntLimit \/ d \div g >= IntLimit THEN OutOfRange
  ELSE [k |-> "num", n |-> n \div g, d |-> d \div g]

\* the rational n/d (d > 0) in lowest terms
Num(n, d) == Reduced(n, d, GCD(Abs(n), d))

IntNum(n) == [k |-> "num", n |-> n, d |-> 1]

\* a * b can be computed
Fits(a, b) == a = 0 \/ b = 0 \/ Abs(a) <= (10 ^ 9) \div Abs(b)

\* the result of an operation one of whose operands is no finite number
Special(a, b) ==
  IF a.k = "syntax" \/ b.k = "syntax" THEN SyntaxErr
  ELSE IF a.k = "range" \/ b.k = "range" THEN OutOfRange
  ELSE NonFinite

Neg(a) == IF a.k = "num" THEN [a EXCEPT !.n = 0 - a.n] ELSE a

Add(a, b) ==
  IF a.k # "num" \/ b.k # "num" THEN Special(a, b)
  ELSE IF ~ (Fits(a.n, b.d) /\ Fits(b.n, a.d) /\ Fits(a.d, b.d)) THEN OutOfRange
  ELSE Num(a.n * b.d + b.n * a.d, a.d * b.d)

\* (n1/d1) * (n2/d2), the common factors cancelled first
Product(n1, d1, n2, d2) ==
  IF ~ (Fits(n1, n2) /\ Fits(d1, d2)) THEN OutOfRange ELSE Num(n1 * n2, d1 * d2)

MulBy(a, b, g1, g2) == Product(a.n \div g1, a.d \div g2, b.n \div g2, b.d \div g1)

Mul(a, b) ==
  IF a.k # "num" \/ b.k # "num" THEN Special(a, b)
  ELSE MulBy(a, b, GCD(Abs(a.n), b.d), GCD(Abs(b.n), a.d))

Inverse(b) == [k |-> "num", n |-> IF b.n < 0 THEN 0 - b.d ELSE b.d, d |-> Abs(b.n)]

\* x / 0 is Infinity, -Infinity or NaN
Div(a, b) ==
  IF a.k # "num" \/ b.k # "num" THEN Special(a, b)
  ELSE IF b.n = 0 THEN NonFinite
  ELSE Mul(a, Inverse(b))

\* the integer part of q, towards zero
Trunc(q) == (Abs(q.n) \div q.d) * (IF q.n < 0 THEN -1 ELSE 1)

ModBy(a, b, q) ==
  IF q.k # "num" THEN q ELSE Add(a, Neg(Mul(b, IntNum(Trunc(q)))))

\* the remainder a % b of JavaScript: a - b * trunc(a / b), NaN when b is 0
Mod(a, b) ==
  IF a.k # "num" \/ b.k # "num" THEN Special(a, b)
  ELSE IF b.n = 0 THEN NonFinite
  ELSE ModBy(a, b, Div(a, b))

Apply(op, a, b) ==
  CASE op = "+" -> Add(a, b)
    [] op = "-" -> Add(a, Neg(b))
    [] op = "*" -> Mul(a, b)
    [] op = "/" -> Div(a, b)
    [] op = "%" -> Mod(a, b)

(* -------------------- numeric literals of JavaScript ------------------- *)
RECURSIVE DigitsVal(_)
DigitsVal(ds) ==
  IF Len(ds) = 0 THEN 0 ELSE DigitsVal(DropLast(ds)) * 10 + DigitVal(ds[Len(ds)])

\* the index after the run of digits and points that starts at i
LitEnd(s, i) ==
  CHOOSE j \in i..(Len(s) + 1) :
     /\ \A k \in i..(j - 1) : IsDigit(s[k]) \/ s[k] = "."
     /\ j = Len(s) + 1 \/ ~ (IsDigit(s[j]) \/ s[j] = ".")

\* the index of the first point of lit, Len(lit) + 1 when it has none
PointAt(lit, i) ==
  CHOOSE j \in i..(Len(lit) + 1) :
     /\ \A k \in i..(j - 1) : lit[k] # "."
     /\ j = Len(lit) + 1 \/ lit[j] = "."

\* DecimalLiteral of strict-mode code with the digits ip before and fp
\* after the point: one point at most, a digit at least, and no integer
\* part that starts with 0 other than "0"
LitOf(ip, fp, points) ==
  IF \/ points > 1
     \/ Len(ip) + Len(fp) = 0
     \/ Len(ip) > 1 /\ ip[1] = "0"
    THEN SyntaxErr
  ELSE IF Len(StripZerosLeft(ip)) + Len(fp) > 9 THEN OutOfRange
  ELSE Num(DigitsVal(ip \o fp), 10 ^ Len(fp))

LitAt(lit, p) ==
  LitOf(SubSeq(lit, 1, p - 1), SubSeq(lit, p + 1, Len(lit)), Count(lit, "."))

LitValue(lit) == LitAt(lit, PointAt(lit, 1))

(* --------------- the arithmetic of Function(...)(), line 53 ------------ *)
\* Expressions of numbers, the binary + - * / % and the unary + and -.
\* Parentheses, ** and a / in operand position are outside this grammar.
InGrammar(s) ==
  /\ \A i \in 1..Len(s) : IsDigit(s[i]) \/ s[i] = "." \/ s[i] \in OpChars
  /\ \A i \in 1..(Len(s) - 1) :
        (s[i] \in OpChars /\ s[i + 1] \in OpChars) => s[i + 1] \in {"+", "-"}

\* A parse is [v |-> the value read, i |-> the index after it].
NoParse(i) == [v |-> SyntaxErr, i |-> i]

Signed(c, r) == [v |-> IF c = "-" THEN Neg(r.v) ELSE r.v, i |-> r.i]

Literal(s, i, j) == [v |-> LitValue(SubSeq(s, i, j - 1)), i |-> j]

\* ++ and -- are read as the update operators, which no operand here takes
Doubled(s, i) == s[i] \in {"+", "-"} /\ i < Len(s) /\ s[i + 1] = s[i]

\* a unary expression at i
RECURSIVE ParseUnary(_, _)
ParseUnary(s, i) ==
  IF i > Len(s) THEN NoParse(i)
  ELSE IF s[i] \in {"+", "-"}
    THEN IF Doubled(s, i) THEN NoParse(i) ELSE Signed(s[i], ParseUnary(s, i + 1))
  ELSE IF IsDigit(s[i]) \/ s[i] = "." THEN Literal(s, i, LitEnd(s, i))
  ELSE NoParse(i)

\* the operand to the right of the binary operator at i
Operand(s, i) == IF Doubled(s, i) THEN NoParse(i) ELSE ParseUnary(s, i + 1)

RECURSIVE TermRest(_, _, _)
RECURSIVE TermStep(_, _, _, _)
\* acc op r, then the rest of the term
TermStep(s, op, acc, r) ==
  IF r.v.k = "syntax" THEN r ELSE TermRest(s, Apply(op, acc, r.v), r.i)

\* the term whose value so far is acc, continued from i
TermRest(s, acc, i) ==
  IF acc.k = "syntax" THEN [v |-> acc, i |-> i]
  ELSE IF i <= Len(s) /\ s[i] \in {"*", "/", "%"}
    THEN TermStep(s, s[i], acc, Operand(s, i))
  ELSE [v |-> acc, i |-> i]

TermFrom(s, u) == TermRest(s, u.v, u.i)

ParseTerm(s, i) == TermFrom(s, ParseUnary(s, i))

RECURSIVE ExprRest(_, _, _)
RECURSIVE ExprStep(_, _, _, _)
ExprStep(s, op, acc, t) ==
  IF t.v.k = "syntax" THEN t ELSE ExprRest(s, Apply(op, acc, t.v), t.i)

\* the sum whose value so far is acc, continued from i
ExprRest(s, acc, i) ==
  IF acc.k = "syntax" THEN [v |-> acc, i |-> i]
  ELSE IF i <= Len(s) /\ s[i] \in {"+", "-"}
    THEN IF Doubled(s, i) THEN NoParse(i) ELSE ExprStep(s, s[i], acc, ParseTerm(s, i + 1))
  ELSE [v |-> acc, i |-> i]

ExprFrom(s, t) == ExprRest(s, t.v, t.i)

Whole(s, r) == IF r.v.k = "syntax" \/ r.i # Len(s) + 1 THEN SyntaxErr ELSE r.v

\* the value of the expression, or SyntaxErr when it is no expression
jsEval(s) == Whole(s, ExprFrom(s, ParseTerm(s, 1)))

(* ------------------------ safeEval, lines 46-54 ------------------------ *)
\* the longest expression safeEval evaluates
MaxExprLen == 180

\* /[^0-9+\-*/().%]/
Whitelisted(c) == IsDigit(c) \/ c \in OpChars \/ c \in {"(", ")", "."}

\* /([+\-*/%]{2,})/.test(e)
HasOpRun(e) == \E i \in 1..(Len(e) - 1) : e[i] \in OpChars /\ e[i + 1] \in OpChars

\* /(\(\-)|(^\-)/.test(e)
HasUnaryMinus(e) ==
  \/ \E i \in 1..(Len(e) - 1) : e[i] = "(" /\ e[i + 1] = "-"
  \/ Len(e) > 0 /\ e[1] = "-"

\* lines 47-48
Stripped(expr) == StripSpaces(normalizeVisual(expr))

\* lines 49-50 without the length test of line 51
Check_NoLength(e) ==
  IF \E i \in 1..Len(e) : ~ Whitelisted(e[i]) THEN "InvalidCharacter"
  ELSE IF HasOpRun(e) /\ ~ HasUnaryMinus(e) THEN "MalformedExpression"
  ELSE "ok"

\* lines 49-51 on the stripped expression
Check(e) ==
  IF \E i \in 1..Len(e) : ~ Whitelisted(e[i]) THEN "InvalidCharacter"
  ELSE IF HasOpRun(e) /\ ~ HasUnaryMinus(e) THEN "MalformedExpression"
  ELSE IF Len(e) > MaxExprLen THEN "ExpressionTooLong"
  ELSE "ok"

\* what safeEval throws before it evaluates, "ok" when it throws nothing
safeEvalCheck(expr) == Check(Stripped(expr))

Thrown(c, v) ==
  IF c # "ok" THEN [kind |-> c, v |-> SyntaxErr]
  ELSE IF v.k = "syntax" THEN [kind |-> "EvaluationError", v |-> SyntaxErr]
  ELSE [kind |-> "ok", v |-> v]

\* [kind |-> "ok", v |-> the value], or the kind of the error thrown
safeEval(expr) == Thrown(safeEvalCheck(expr), jsEval(Stripped(expr)))

(* ------------------- formatting a result, line 159 --------------------- *)
\* the number of decimals of result.toFixed(10)
FixedDigits == 10

FracCons(digit, rest) == [ds |-> <<DigitChar(digit)>> \o rest.ds, r |-> rest.r]

\* k digits of r/d after the point by long division: [ds, r]
RECURSIVE FracDigits(_, _, _)
FracDigits(r, d, k) ==
  IF k = 0 THEN [ds |-> <<>>, r |-> r]
  ELSE FracCons((r * 10) \div d, FracDigits((r * 10) % d, d, k - 1))

\* the digits of the number one larger
RECURSIVE Incr(_)
Incr(ds) ==
  IF Len(ds) = 0 THEN <<"1">>
  ELSE IF ds[Len(ds)] = "9" THEN Incr(DropLast(ds)) \o <<"0">>
  ELSE DropLast(ds) \o <<DigitChar(DigitVal(ds[Len(ds)]) + 1)>>

\* the digits ip and f.ds of a number, rounded up when the remainder f.r of
\* the division by d is half of d or more
Round(ip, f, d) == IF 2 * f.r >= d THEN Incr(ip \o f.ds) ELSE ip \o f.ds

\* the number of the digits all, the last k of them after the point
FixedText(neg, all, k) ==
  DecToString(MkDec(neg, SubSeq(all, 1, Len(all) - k), SubSeq(all, Len(all) - k + 1, Len(all))))

\* String(parseFloat(x.toFixed(k))): x rounded to k decimals, the larger
\* neighbour on a tie, printed as the number it denotes
ToFixedString(v, k) ==
  FixedText(v.n < 0,
            Round(NatDigits(Abs(v.n) \div v.d), FracDigits(Abs(v.n) % v.d, v.d, k), v.d),
            k)

ExactCons(digit, rest) == [ok |-> rest.ok, ds |-> <<DigitChar(digit)>> \o rest.ds]

\* the digits of r/d after the point when they end within k digits
RECURSIVE ExactFrac(_, _, _)
ExactFrac(r, d, k) ==
  IF r = 0 THEN [ok |-> TRUE, ds |-> <<>>]
  ELSE IF k = 0 THEN [ok |-> FALSE, ds |-> <<>>]
  ELSE ExactCons((r * 10) \div d, ExactFrac((r * 10) % d, d, k - 1))

\* the digits a double holds
DoubleDigits == 17

\* String(x) of a finite x whose decimal expansion ends
NumToString(v) ==
  DecToString(MkDec(v.n < 0,
                    NatDigits(Abs(v.n) \div v.d),
                    ExactFrac(Abs(v.n) % v.d, v.d, DoubleDigits).ds))

Printable(v) == v.k = "num" /\ ExactFrac(Abs(v.n) % v.d, v.d, DoubleDigits).ok

\* Number.isInteger(result) ? String(result)
\*                          : String(parseFloat(result.toFixed(10)).toString())
FormatResult(v) ==
  IF v.n % v.d = 0 THEN NumToString(v) ELSE ToFixedString(v, FixedDigits)

(* ------------------- the handlers, lines 93-169 ------------------------ *)
\* A handler maps the state st = [current, history, consumedResult] to
\* [st |-> the state it leaves, err |-> the kind of the error it caught or
\* "none", refresh |-> whether it called refreshDisplay].

State == [current |-> current, history |-> history, consumedResult |-> consumedResult]

Done(st) == [st |-> st, err |-> "none", refresh |-> TRUE]

Returned(st) == [st |-> st, err |-> "none", refresh |-> FALSE]

Failed(st, kind) == [st |-> st, err |-> kind, refresh |-> FALSE]

\* the handler computes a value outside IntLimit: the event is not explored
Unexplored(st) == [st |-> st, err |-> "range", refresh |-> FALSE]

\* String(x) of Infinity, -Infinity or NaN, which no current yields
NonFiniteText == <<"NonFinite">>

\* appendDigit without the test of line 102
appendDigit_NoPointCheck(st, d) ==
  IF st.consumedResult
    THEN Done([st EXCEPT !.current = IF d = "." THEN <<"0", ".">> ELSE <<d>>,
                         !.consumedResult = FALSE])
  ELSE IF st.current = <<"0">> /\ d # "." THEN Done([st EXCEPT !.current = <<d>>])
  ELSE Done([st EXCEPT !.current = st.current \o <<d>>])

\* appendDigit whose lines 95-100 also start a new history
appendDigit_ClearsHistory(st, d) ==
  IF st.consumedResult
    THEN Done([current |-> IF d = "." THEN <<"0", ".">> ELSE <<d>>,
               history |-> <<>>,
               consumedResult |-> FALSE])
  ELSE IF st.current = <<"0">> /\ d # "." THEN Done([st EXCEPT !.current = <<d>>])
  ELSE IF d = "." /\ Includes(st.current, ".") THEN Returned(st)
  ELSE Done([st EXCEPT !.current = st.current \o <<d>>])

appendDigit(st, d) ==
  IF st.consumedResult
    THEN Done([st EXCEPT !.current = IF d = "." THEN <<"0", ".">> ELSE <<d>>,
                         !.consumedResult = FALSE])
  ELSE IF st.current = <<"0">> /\ d # "." THEN Done([st EXCEPT !.current = <<d>>])
  ELSE IF d = "." /\ Includes(st.current, ".") THEN Returned(st)
  ELSE Done([st EXCEPT !.current = st.current \o <<d>>])

\* applyOperator whose line 116 forgets the slice
applyOperator_Appends(st, op) ==
  IF st.consumedResult
    THEN Done([current |-> <<"0">>,
               history |-> st.current \o <<op>>,
               consumedResult |-> FALSE])
  ELSE IF EndsWithOp(st.history)
    THEN Done([st EXCEPT !.history = st.history \o <<op>>, !.current = <<"0">>])
  ELSE Done([st EXCEPT !.history = st.history \o st.current \o <<op>>,
                       !.current = <<"0">>])

\* applyOperator without the replacement of line 116
applyOperator_NoReplace(st, op) ==
  IF st.consumedResult
    THEN Done([current |-> <<"0">>,
               history |-> st.current \o <<op>>,
               consumedResult |-> FALSE])
  ELSE Done([st EXCEPT !.history = st.history \o st.current \o <<op>>,
                       !.current = <<"0">>])

\* applyOperator without the consumedResult = false of line 111
applyOperator_KeepsFlag(st, op) ==
  IF st.consumedResult
    THEN Done([current |-> <<"0">>,
               history |-> st.current \o <<op>>,
               consumedResult |-> TRUE])
  ELSE IF EndsWithOp(st.history)
    THEN Done([st EXCEPT !.history = DropLast(st.history) \o <<op>>,
                         !.current = <<"0">>])
  ELSE Done([st EXCEPT !.history = st.history \o st.current \o <<op>>,
                       !.current = <<"0">>])

applyOperator(st, op) ==
  IF st.consumedResult
    THEN Done([current |-> <<"0">>,
               history |-> st.current \o <<op>>,
               consumedResult |-> FALSE])
  ELSE IF EndsWithOp(st.history)
    THEN Done([st EXCEPT !.history = DropLast(st.history) \o <<op>>,
                         !.current = <<"0">>])
  ELSE Done([st EXCEPT !.history = st.history \o st.current \o <<op>>,
                       !.current = <<"0">>])

Hundred == IntNum(100)

\* current = String(q), lines 126-127
PercentOf(st, q) ==
  IF ~ Printable(q) THEN Unexplored(st)
  ELSE Done([st EXCEPT !.current = NumToString(q)])

\* lines 124-131 with r the outcome of safeEval(current)
Percented(st, r) ==
  IF r.kind # "ok" THEN Failed(st, r.kind)
  ELSE IF r.v.k = "nonfinite" THEN Done([st EXCEPT !.current = NonFiniteText])
  ELSE PercentOf(st, Div(r.v, Hundred))

doPercent(st) == Percented(st, safeEval(st.current))

\* backspace without the "0" of line 142
backspace_NoZero(st) ==
  IF st.consumedResult
    THEN Done([st EXCEPT !.current = <<"0">>, !.consumedResult = FALSE])
  ELSE Done([st EXCEPT !.current = DropLast(st.current)])

\* backspace whose lines 136-141 leave consumedResult alone
backspace_KeepsFlag(st) ==
  IF st.consumedResult
    THEN Done([st EXCEPT !.current = <<"0">>])
  ELSE Done([st EXCEPT !.current =
               IF Len(st.current) <= 1 THEN <<"0">> ELSE DropLast(st.current)])

backspace(st) ==
  IF st.consumedResult
    THEN Done([st EXCEPT !.current = <<"0">>, !.consumedResult = FALSE])
  ELSE Done([st EXCEPT !.current =
               IF Len(st.current) <= 1 THEN <<"0">> ELSE DropLast(st.current)])

\* clearAll without the consumedResult = false of line 148
clearAll_KeepsFlag(st) ==
  Done([current |-> <<"0">>, history |-> <<>>, consumedResult |-> st.consumedResult])

clearAll(st) ==
  Done([current |-> <<"0">>, history |-> <<>>, consumedResult |-> FALSE])

\* line 160 as history = history + ' ='
Evaluated_DropsCurrent(st, expr, r) ==
  IF r.kind # "ok" THEN Failed(st, r.kind)
  ELSE IF r.v.k = "nonfinite" THEN Failed(st, "NonFiniteResult")
  ELSE IF r.v.k = "range" THEN Unexplored(st)
  ELSE Done([current |-> FormatResult(r.v),
             history |-> st.history \o EqSuffix,
             consumedResult |-> TRUE])

\* the catch of line 165 resetting current at once
Evaluated_ClearsOnError(st, expr, r) ==
  IF r.kind # "ok" THEN Failed([st EXCEPT !.current = <<"0">>], r.kind)
  ELSE IF r.v.k = "nonfinite" THEN Failed([st EXCEPT !.current = <<"0">>], "NonFiniteResult")
  ELSE IF r.v.k = "range" THEN Unexplored(st)
  ELSE Done([current |-> FormatResult(r.v),
             history |-> expr \o EqSuffix,
             consumedResult |-> TRUE])

\* lines 158-167 with r the outcome of safeEval(expr)
Evaluated(st, expr, r) ==
  IF r.kind # "ok" THEN Failed(st, r.kind)
  ELSE IF r.v.k = "nonfinite" THEN Failed(st, "NonFiniteResult")
  ELSE IF r.v.k = "range" THEN Unexplored(st)
  ELSE Done([current |-> FormatResult(r.v),
             history |-> expr \o EqSuffix,
             consumedResult |-> TRUE])

\* lines 156-157
EvaluateOf(st, expr) ==
  IF Len(expr) = 0 THEN Returned(st) ELSE Evaluated(st, expr, safeEval(expr))

evaluateExpression(st) == EvaluateOf(st, normalizeVisual(st.history \o st.current))

(* ----------------------------- the events ------------------------------ *)
DigitKeys == {DigitChar(v) : v \in 0..MaxDigit} \cup {"."}

OpKeys == {"+", "-", "*", "/"}

\* showError without the setTimeout of line 89
showError_NoTimer(t) == t

\* showError, lines 79-90: one more reset callback is pending
showError(t) == t + 1

\* the handler named name ran with the result res.  refreshDisplay (lines
\* 57-67) writes current to the display; showError writes "Err" and
\* schedules the reset.
Commit(name, res) ==
  /\ res.err # "range"
  /\ res.err # "none" => timers < MaxTimers
  /\ current' = res.st.current
  /\ history' = res.st.history
  /\ consumedResult' = res.st.consumedResult
  /\ shown' = IF res.err # "none" THEN ErrText
              ELSE IF res.refresh THEN res.st.current
              ELSE shown
  /\ timers' = IF res.err # "none" THEN showError(timers) ELSE timers
  /\ lastAction' = name
  /\ repeated' = (lastAction = name)
  /\ lastErr' = res.err

\* a digit is appended while the current it leaves is within MaxTyped
TypedWithin(d, res) ==
  /\ d = "." \/ Len(res.st.current) <= MaxTyped
  /\ Commit("appendDigit", res)

AppendDigit(d) == TypedWithin(d, appendDigit(State, d))

HistoryWithin(res) ==
  /\ Len(res.st.history) <= MaxHist
  /\ Commit("applyOperator", res)

ApplyOperator(op) == HistoryWithin(applyOperator(State, op))

CurrentWithin(res) ==
  /\ Len(res.st.current) <= MaxCur
  /\ Commit("doPercent", res)

DoPercent == CurrentWithin(doPercent(State))

Backspace == Commit("backspace", backspace(State))

ClearAll == Commit("clearAll", clearAll(State))

\* r is the outcome of safeEval on history + current
ResultWithin(r, res) ==
  /\ (r.kind = "ok" /\ r.v.k = "num") => Abs(r.v.n) <= MaxResult * r.v.d
  /\ Commit("evaluateExpression", res)

EvaluateExpression ==
  /\ Len(history \o current) <= MaxExpr
  /\ ResultWithin(safeEval(normalizeVisual(history \o current)), evaluateExpression(State))

\* the callback of line 89: current = '0'; refreshDisplay()
ErrorReset ==
  /\ timers > 0
  /\ timers' = timers - 1
  /\ current' = <<"0">>
  /\ shown' = <<"0">>
  /\ UNCHANGED <<history, consumedResult, lastAction, repeated, lastErr>>

\* the keydown listener, lines 214-224
Keydown(key) ==
  IF IsDigit(key) \/ key = "." THEN AppendDigit(key)
  ELSE IF key \in {"Enter", "="} THEN EvaluateExpression
  ELSE IF key = "Backspace" THEN Backspace
  ELSE IF key = "Escape" THEN ClearAll
  ELSE IF key \in OpKeys THEN ApplyOperator(key)
  ELSE IF key = "%" THEN DoPercent
  ELSE UNCHANGED <<current, history, consumedResult, shown, timers,
                   lastAction, repeated, lastErr>>

Init ==
  /\ current = <<"0">>
  /\ history = <<>>
  /\ consumedResult = FALSE
  /\ shown = <<"0">>
  /\ timers = 0
  /\ lastAction = "init"
  /\ repeated = FALSE
  /\ lastErr = "none"
  /\ script = <<>>
  /\ pc = 0

Next ==
  \/ \E d \in DigitKeys : AppendDigit(d) /\ UNCHANGED <<script, pc>>
  \/ \E op \in OpKeys : ApplyOperator(op) /\ UNCHANGED <<script, pc>>
  \/ DoPercent /\ UNCHANGED <<script, pc>>
  \/ Backspace /\ UNCHANGED <<script, pc>>
  \/ ClearAll /\ UNCHANGED <<script, pc>>
  \/ EvaluateExpression /\ UNCHANGED <<script, pc>>
  \/ ErrorReset /\ UNCHANGED <<script, pc>>

Spec == Init /\ [][Next]_vars

\* the event loop runs a callback that is due
LiveSpec == Spec /\ WF_vars(ErrorReset /\ UNCHANGED <<script, pc>>)

(* --------------------- a typed expression, key by key ------------------ *)
\* the digit keys of a typed expression are "0" .. the digit ScriptDigit
ScriptDigit == 3

\* the operands typed: digit strings that start with no needless 0
Operands ==
  LET D == {DigitChar(v) : v \in 0..ScriptDigit}
  IN  {<<d>> : d \in D} \cup {<<d, e>> : d \in D \ {"0"}, e \in D}

\* digits(a) operator(op1) digits(b) evaluate, and
\* digits(a) operator(op1) digits(b) operator(op2) digits(c) evaluate
Scripts ==
  {a \o <<op1>> \o b \o <<"=">> : a \in Operands, b \in Operands, op1 \in OpKeys}
  \cup
  {<<a, op1, b, op2, c, "=">> :
     a \in {DigitChar(v) : v \in 0..ScriptDigit},
     b \in {DigitChar(v) : v \in 0..ScriptDigit},
     c \in {DigitChar(v) : v \in 0..ScriptDigit},
     op1 \in OpKeys, op2 \in OpKeys}

ScriptInit ==
  /\ current = <<"0">>
  /\ history = <<>>
  /\ consumedResult = FALSE
  /\ shown = <<"0">>
  /\ timers = 0
  /\ lastAction = "init"
  /\ repeated = FALSE
  /\ lastErr = "none"
  /\ script \in Scripts
  /\ pc = 1

PressNext ==
  /\ pc <= Len(script)
  /\ Keydown(script[pc])
  /\ pc' = pc + 1
  /\ UNCHANGED script

ScriptNext ==
  \/ PressNext
  \/ ErrorReset /\ UNCHANGED <<script, pc>>

ScriptSpec == ScriptInit /\ [][ScriptNext]_vars

ScriptDone == Len(script) > 0 /\ pc > Len(script)

\* the expression typed
Typed == DropLast(script)

(* ------------------ safeEval on an expression of its own --------------- *)
\* the expressions handed to safeEval are short ones of at most MaxShort
\* characters, and long ones of MaxExprLen - 1 .. MaxExprLen + MaxOver
\* characters that start with at most MaxPrefix characters of their own
MaxShort == 4
MaxPrefix == 2
MaxOver == 2

\* characters of the whitelist, a space, and "e", which is outside of it
EvalChars == {"1", "+", "-", "*", "(", " ", "e"}

\* the sequences over EvalChars of at most n characters
RECURSIVE Strings(_)
Strings(n) ==
  IF n = 0 THEN {<<>>}
  ELSE Strings(n - 1) \cup {Append(s, c) : s \in Strings(n - 1), c \in EvalChars}

\* the number 11...1 of n digits
Ones(n) == [i \in 1..n |-> "1"]

LongExprs ==
  {pre \o Ones(n - Len(pre)) :
     pre \in Strings(MaxPrefix), n \in (MaxExprLen - 1)..(MaxExprLen + MaxOver)}

\* an expression with a parenthesis that passes the checks of lines 49-51
\* is evaluated outside the grammar of jsEval, and is not handed over
EvalInputs ==
  {e \in Strings(MaxShort) \cup LongExprs :
     Includes(e, "(") => safeEvalCheck(e) # "ok"}

\* script is the expression, pc the number of calls made
EvalInit ==
  /\ current = <<"0">>
  /\ history = <<>>
  /\ consumedResult = FALSE
  /\ shown = <<"0">>
  /\ timers = 0
  /\ lastAction = "init"
  /\ repeated = FALSE
  /\ lastErr = "none"
  /\ script \in EvalInputs
  /\ pc = 0

\* one call safeEval(script): lastErr is the kind of the error it throws,
\* "none" when it returns; lastAction tells whether line 53 was reached
SafeEval ==
  /\ pc = 0
  /\ pc' = 1
  /\ lastErr' = IF safeEval(script).kind = "ok" THEN "none" ELSE safeEval(script).kind
  /\ lastAction' = IF safeEvalCheck(script) = "ok" THEN "Function" ELSE "throw"
  /\ UNCHANGED <<current, history, consumedResult, shown, timers, repeated, script>>

EvalNext == SafeEval

EvalSpec == EvalInit /\ [][EvalNext]_vars

(* ------------------- a result chained into an expression --------------- *)
\* the operands of the first expression, typed key by key
ChainOperands ==
  {<<"1">>, <<"2">>, <<"0", ".", "0", "0", "1">>, <<"0", ".", "0", "0", "0", "1">>}

\* the digit keys of the operand chained on are "0" .. the digit ChainDigit
ChainDigit == 2

\* digits(a) operator(op1) digits(b) evaluate operator(op) digits(c) evaluate
ChainScripts ==
  {a \o <<op1>> \o b \o <<"=", op, c, "=">> :
     a \in ChainOperands, b \in ChainOperands, op1 \in OpKeys, op \in OpKeys,
     c \in {DigitChar(v) : v \in 0..ChainDigit}}

ChainInit ==
  /\ current = <<"0">>
  /\ history = <<>>
  /\ consumedResult = FALSE
  /\ shown = <<"0">>
  /\ timers = 0
  /\ lastAction = "init"
  /\ repeated = FALSE
  /\ lastErr = "none"
  /\ script \in ChainScripts
  /\ pc = 1

\* the keydown listener, lines 214-224, on a key of a script
KeyPressed(key) ==
  IF IsDigit(key) \/ key = "." THEN Commit("appendDigit", appendDigit(State, key))
  ELSE IF key \in {"Enter", "="}
    THEN Commit("evaluateExpression", evaluateExpression(State))
  ELSE IF key = "Backspace" THEN Backspace
  ELSE IF key = "Escape" THEN ClearAll
  ELSE IF key \in OpKeys THEN Commit("applyOperator", applyOperator(State, key))
  ELSE IF key = "%" THEN Commit("doPercent", doPercent(State))
  ELSE UNCHANGED <<current, history, consumedResult, shown, timers,
                   lastAction, repeated, lastErr>>

ChainPress ==
  /\ pc <= Len(script)
  /\ KeyPressed(script[pc])
  /\ pc' = pc + 1
  /\ UNCHANGED script

ChainNext ==
  \/ ChainPress
  \/ ErrorReset /\ UNCHANGED <<script, pc>>

ChainSpec == ChainInit /\ [][ChainNext]_vars

\* the first expression typed, the operator and the operand chained on
ChainFirst == SubSeq(script, 1, Len(script) - 4)

ChainOp == script[Len(script) - 2]

ChainOperand == script[Len(script) - 1]

(* ------------------------------- claims -------------------------------- *)
\* the integers of the operands the claims compute with directly
MaxOperand == 11

IntText(n) == IF n < 0 THEN <<"-">> \o NatDigits(0 - n) ELSE NatDigits(n)

IntOp(op, a, b) == CASE op = "+" -> a + b [] op = "-" -> a - b [] op = "*" -> a * b

EndsWithEq(h) == Len(h) >= 2 /\ SubSeq(h, Len(h) - 1, Len(h)) = EqSuffix

\* three operands and two operators were typed
ThreeOperands == Len(script) = 6 /\ script[2] \in OpKeys /\ script[4] \in OpKeys

\* C1: after digits(a) operator(op1) digits(b) operator(op2) digits(c)
\* evaluate from the initial state, history is "a op1 b op2 c =" and current
\* is the formatted value of a op1 b op2 c under standard precedence, or the
\* evaluation failed because that value is not finite.
C1_MultiOperandEvaluated ==
  (ScriptDone /\ ThreeOperands) =>
     IF jsEval(Typed).k = "nonfinite" THEN lastErr = "NonFiniteResult"
     ELSE history = Typed \o EqSuffix /\ current = FormatResult(jsEval(Typed))

\* C2: a successful evaluate from a state with consumedResult false leaves
\* history = history + current + " =", consumedResult true and current the
\* formatted result; for integers a and b typed around +, - or *, current
\* is the text of the integer a op b.
C2_EvaluateSuccess ==
  [][(EvaluateExpression /\ ~ consumedResult /\ lastErr' = "none") =>
       /\ history' = history \o current \o EqSuffix
       /\ consumedResult'
       /\ current' = FormatResult(jsEval(history \o current))
       /\ \A a \in 0..MaxOperand, b \in 0..MaxOperand, op \in {"+", "-", "*"} :
             (history = IntText(a) \o <<op>> /\ current = IntText(b))
                => current' = IntText(IntOp(op, a, b))]_vars

\* 1+1 was evaluated to 2
C2_Witness ==
  /\ lastAction = "evaluateExpression"
  /\ lastErr = "none"
  /\ consumedResult
  /\ history = <<"1", "+", "1", " ", "=">>
  /\ current = <<"2">>

\* C3: after a successful evaluate and digit entries, applyOperator leaves a
\* history without the evaluated expression (no "=" in it) and evaluate
\* evaluates the digits typed as a fresh expression.
C3_StaleHistoryOverwritten ==
  [][(lastAction = "appendDigit" /\ ~ consumedResult /\ EndsWithEq(history)) =>
       /\ (\E op \in OpKeys : ApplyOperator(op)) => ~ Includes(history', "=")
       /\ EvaluateExpression =>
            (lastErr' = "none" /\ history' = current \o EqSuffix)]_vars

\* C4: current never holds more than one decimal point.
C4_OnePoint == Count(current, ".") <= 1

\* a point was typed into a current that had one, and the display was not
\* refreshed
C4_Witness ==
  /\ lastAction = "appendDigit"
  /\ shown = ErrText
  /\ Includes(current, ".")

\* C5: history never ends with two operator characters.
C5_NoOperatorPair ==
  ~ (Len(history) >= 2 /\ history[Len(history)] \in OpChars
       /\ history[Len(history) - 1] \in OpChars)

\* C6 as stated: current consists of digits and at most one point.
C6_UnsignedFragment ==
  /\ Len(current) > 0
  /\ \A i \in 1..Len(current) : IsDigit(current[i]) \/ current[i] = "."
  /\ Count(current, ".") <= 1

\* digits, points, an exponent marker and signs; a sign stands first or right
\* after the exponent marker, and only "-" stands first
IsNumberText(s) ==
  /\ Len(s) > 0
  /\ IsDigit(s[1]) \/ s[1] = "-"
  /\ \A i \in 1..Len(s) : IsDigit(s[i]) \/ s[i] \in {".", "e", "+", "-"}
  /\ \A i \in 2..Len(s) : s[i] \in {"+", "-"} => s[i - 1] = "e"
  /\ Count(s, ".") <= 1
  /\ Count(s, "e") <= 1

\* C6 as amended: current is never empty and consists of digits, at most one
\* point and, from a result or a percentage written into it, possibly a
\* leading "-" and one exponent marker "e" with its sign.
C6_NumberText == IsNumberText(current)

\* a negative result
C6_Witness == consumedResult /\ Len(current) > 1 /\ current[1] = "-"

\* C7: applyOperator(op1) then applyOperator(op2) leaves the state that
\* applyOperator(op2) alone leaves: history is the history after op1 with
\* op2 in the place of op1, and current is "0".
C7_OperatorReplacement ==
  \A op1 \in OpKeys, op2 \in OpKeys :
     /\ applyOperator(applyOperator(State, op1).st, op2).st = applyOperator(State, op2).st
     /\ applyOperator(applyOperator(State, op1).st, op2).st.current = <<"0">>
     /\ EndsWithOp(applyOperator(applyOperator(State, op1).st, op2).st.history)
     /\ applyOperator(applyOperator(State, op1).st, op2).st.history
          = DropLast(applyOperator(State, op1).st.history) \o <<op2>>

\* an operator was entered after an operator
C7_Witness ==
  /\ lastAction = "applyOperator"
  /\ repeated
  /\ ~ consumedResult
  /\ current = <<"0">>
  /\ Len(history) = 2

\* C8: a failed evaluate leaves history unchanged and consumedResult false.
C8_FailedEvaluateFrame ==
  [][(EvaluateExpression /\ lastErr' # "none") =>
       (history' = history /\ consumedResult' = FALSE)]_vars

\* C9 as stated: an evaluate right after a failed evaluate, the reset fired
\* or not, fails with the same kind.
C9_SameKindAgain ==
  [][(lastAction = "evaluateExpression" /\ lastErr # "none" /\ EvaluateExpression)
       => lastErr' = lastErr]_vars

\* C9 as amended: an evaluate right after a failed evaluate, with no reset
\* fired in between (the display still shows "Err"), fails with the same
\* kind.
C9_SameKindWithoutReset ==
  [][(lastAction = "evaluateExpression" /\ lastErr # "none" /\ shown = ErrText
        /\ EvaluateExpression)
       => lastErr' = lastErr]_vars

\* evaluate failed twice in a row and no reset has fired
C9_Witness ==
  /\ lastAction = "evaluateExpression"
  /\ repeated
  /\ ~ consumedResult
  /\ lastErr # "none"
  /\ timers = 2

\* C10: an error display is followed by current "0" on the display, and
\* the calculator goes on accepting events.
C10_ErrorReverts ==
  /\ (shown = ErrText) ~> (current = <<"0">> /\ shown = <<"0">>)
  /\ [](ENABLED (ClearAll /\ UNCHANGED <<script, pc>>))

\* an error is displayed over a current that is not "0"
C10_Witness == shown = ErrText /\ current # <<"0">> /\ timers > 0

\* C11: clearAll leaves current "0", history "" and consumedResult false,
\* whatever callbacks are pending, and a callback that fires after it leaves
\* the three as they are.
C11_ClearResets ==
  [][/\ ClearAll => (current' = <<"0">> /\ history' = <<>> /\ ~ consumedResult')
     /\ (lastAction = "clearAll" /\ ErrorReset) =>
           (current' = current /\ history' = history
              /\ consumedResult' = consumedResult)]_vars

\* clearAll ran while callbacks were pending
C11_Witness ==
  /\ lastAction = "clearAll"
  /\ timers = MaxTimers
  /\ current = <<"0">>
  /\ history = <<>>
  /\ ~ consumedResult

\* C12 as stated: backspace on current "0" leaves current, history and
\* consumedResult as they are.
C12_BackspaceNoOp ==
  [][(Backspace /\ current = <<"0">>) =>
       (current' = <<"0">> /\ history' = history
          /\ consumedResult' = consumedResult)]_vars

\* C12 as amended: backspace on current "0" leaves current "0" and history
\* as it is, and leaves consumedResult false, whether it was false or true.
C12_BackspaceOnZero ==
  [][(Backspace /\ current = <<"0">>) =>
       (current' = <<"0">> /\ history' = history /\ ~ consumedResult')]_vars

\* backspace ran twice in a row and left "0" under the history of an
\* evaluated 0
C12_Witness ==
  /\ lastAction = "backspace"
  /\ repeated
  /\ current = <<"0">>
  /\ history = <<"0", " ", "=">>
  /\ ~ consumedResult

\* the expression a history "<expr> =" records
Recorded(h) == SubSeq(h, 1, Len(h) - 2)

\* C15: whenever consumedResult is true, history is "<expr> =" and current
\* is the formatted result of <expr>.
C15_ResultOfHistory ==
  consumedResult =>
     /\ EndsWithEq(history)
     /\ safeEval(Recorded(history)).kind = "ok"
     /\ current = FormatResult(safeEval(Recorded(history)).v)

\* C16: a callback that fires after handlers ran without error since the
\* failure leaves current, history and consumedResult as they left them.
C16_InputKept ==
  [][(ErrorReset /\ lastErr = "none") =>
       (current' = current /\ history' = history
          /\ consumedResult' = consumedResult)]_vars

\* the text of a number: number text that ends with a digit and has no
\* point after its exponent marker
HoldsNumber(s) ==
  /\ IsNumberText(s)
  /\ IsDigit(s[Len(s)])
  /\ \A i \in 1..Len(s), j \in 1..Len(s) : (s[i] = "e" /\ s[j] = ".") => j < i

\* the texts a and b have no exponent, and the value of a is 100 times
\* the value of b
HundredTimes(a, b) ==
  (~ Includes(a, "e") /\ ~ Includes(b, "e")) => jsEval(a) = Mul(jsEval(b), Hundred)

\* C18: percent on a current that holds the number v succeeds, writes the
\* text of v / 100 into current ("10" becomes "0.1") and leaves history and
\* consumedResult as they are.
C18_PercentOfCurrent ==
  [][(DoPercent /\ HoldsNumber(current)) =>
       /\ lastErr' = "none"
       /\ HoldsNumber(current')
       /\ HundredTimes(current, current')
       /\ current = <<"1", "0">> => current' = <<"0", ".", "1">>
       /\ history' = history
       /\ consumedResult' = consumedResult]_vars

\* C19: appendDigit and backspace leave history as it is, also when
\* consumedResult is true.
C19_HistoryKept ==
  [][((\E d \in DigitKeys : AppendDigit(d)) \/ Backspace) => history' = history]_vars

\* a digit was typed over a result, under the history of its expression
C19_Witness ==
  /\ lastAction = "appendDigit"
  /\ ~ repeated
  /\ ~ consumedResult
  /\ Len(current) = 1
  /\ EndsWithEq(history)

\* C20: consumedResult true implies that history ends with " =", and
\* current is never empty, so that the expression evaluateExpression builds
\* (line 155) is never empty.
C20_FlagUnderResult ==
  /\ consumedResult => EndsWithEq(history)
  /\ Len(current) > 0
  /\ Len(normalizeVisual(history \o current)) > 0

\* consumedResult is still true after a percent of the result
C20_Witness ==
  /\ consumedResult
  /\ lastAction = "doPercent"
  /\ lastErr = "none"
  /\ EndsWithEq(history)

LongRule(e, err) ==
  /\ err \in {"InvalidCharacter", "MalformedExpression", "ExpressionTooLong"}
  /\ ((\A i \in 1..Len(e) : Whitelisted(e[i])) /\ (~ HasOpRun(e) \/ HasUnaryMinus(e)))
        => err = "ExpressionTooLong"

RECURSIVE RunStart(_, _)
RunStart(e, i) == IF i > 1 /\ e[i - 1] \in OpChars THEN RunStart(e, i - 1) ELSE i

\* the run that starts at j starts with the leading "-" or the "-" of "(-"
UnaryAt(e, j) == e[j] = "-" /\ (j = 1 \/ e[j - 1] = "(")

\* e has two operator characters in a row in a run that starts with no
\* such "-"
HasDoubled(e) ==
  \E i \in 1..(Len(e) - 1) :
     e[i] \in OpChars /\ e[i + 1] \in OpChars /\ ~ UnaryAt(e, RunStart(e, i))

\* C14: safeEval throws MalformedExpression on every expression of
\* whitelisted characters with two operator characters in a row, other than
\* in a run that starts with the leading "-" or with the "-" of "(-"; also
\* when the expression starts with "-" or contains "(-" elsewhere.
C14_DoubledRejected ==
  (pc = 1 /\ (\A i \in 1..Len(Stripped(script)) : Whitelisted(Stripped(script)[i]))
     /\ HasDoubled(Stripped(script)))
    => lastErr = "MalformedExpression"

\* the script was typed to its end
ChainDone == pc > Len(script)

\* the result r of the first expression, which every operand of
\* ChainOperands leaves exact within FixedDigits decimals, chained with the
\* operator and the operand typed after it
ChainValue == Apply(ChainOp, jsEval(ChainFirst), IntNum(DigitVal(ChainOperand)))

\* C17: after a successful evaluate with result r, operator(op), digits(b)
\* and evaluate leave history "r op b =" and current the formatted value of
\* r op b, or fail because that value is not finite.
C17_ChainOffResult ==
  (ChainDone /\ jsEval(ChainFirst).k = "num") =>
     IF ChainValue.k = "nonfinite" THEN lastErr = "NonFiniteResult"
     ELSE /\ history = FormatResult(jsEval(ChainFirst)) \o <<ChainOp, ChainOperand>> \o EqSuffix
          /\ current = FormatResult(ChainValue)

====
